---- MODULE Spec2Model ----
(***************************************************************************)
(* The two live dashboards of the repository.                              *)
(*                                                                         *)
(*   src/dashboard/app.py  penguin monitoring: a reactive calc             *)
(*       (generate_reactive_data) that appends one simulated reading to a  *)
(*       bounded deque each time it executes, and five outputs that read   *)
(*       the calc; one of them (plot_population_trend) fits a regression   *)
(*       line with scipy.stats.linregress.                                 *)
(*   src/app.py            stock price: a reactive calc                    *)
(*       (reactive_calc_stock) and two text outputs.                       *)
(*                                                                         *)
(* Numbers with decimals are kept as scaled integers: food_availability in *)
(* tenths, the stock price in hundredths.  The regression is computed in   *)
(* exact rationals <<numerator, denominator>>; <<0, 0>> stands for the     *)
(* floating point NaN that 0.0 / 0.0 yields.                               *)
(***************************************************************************)
EXTENDS Integers, Sequences, FiniteSets, TLC

VARIABLES
    app,                    \* which of the two programs this process runs
    tab,                    \* the nav panel the browser shows (dashboard)
    now,                    \* wall clock, in seconds
    reactive_value_wrapper, \* contents of the deque held by the reactive value
    calc_valid,             \* the reactive calc holds a cached, valid value
    calc_value,             \* the cached value: the DataFrame and the latest entry
    dirty,                  \* outputs that are invalidated and must re-render
    output,                 \* what each output last rendered
    ticks,                  \* history: executions of the calc body
    ticks_in_interval,      \* history: executions since the timer last fired
    generated,              \* history: every reading generated, in order
    last_read,              \* history: the result the latest call of the calc returned
    stock_valid,            \* reactive_calc_stock holds a cached, valid value
    stock_value             \* the cached stock_data_entry

vars == <<app, tab, now, reactive_value_wrapper, calc_valid, calc_value, dirty,
          output, ticks, ticks_in_interval, generated, last_read, stock_valid,
          stock_value>>

----------------------------------------------------------------------------
(* Program constants *)

DEQUE_SIZE == 5

UPDATE_INTERVAL_SECS == 3

UPDATE_INTERVAL_SECS_stock == 1

(* Bound of the model: the timer stops firing after this many executions. *)
MaxTicks == 7

LiveData == "Live Data"

TrendTab == "Penguin Population Trend"

DashboardOutputs ==
    {"display_population", "display_chicks", "display_food",
     "show_data_frame", "plot_population_trend"}

StockOutputs == {"display_price", "display_time"}

Outputs == DashboardOutputs \cup StockOutputs

(* The nav panel each dashboard output is declared in. *)
PanelOf(o) == IF o = "plot_population_trend" THEN TrendTab ELSE LiveData

----------------------------------------------------------------------------
(* Exact rational arithmetic standing in for float64 *)

NaN == <<0, 0>>

Abs(i) == IF i < 0 THEN -i ELSE i

RECURSIVE GCD(_, _)
GCD(a, b) == IF b = 0 THEN a ELSE GCD(b, a % b)

Rat(n, d) ==
    IF d = 0 THEN NaN
    ELSE LET g == GCD(Abs(n), Abs(d))
             s == IF d < 0 THEN -1 ELSE 1
         IN  <<(s * n) \div g, (s * d) \div g>>

IsNaN(q) == q[2] = 0

FromInt(i) == <<i, 1>>

RatAdd(p, q) ==
    IF IsNaN(p) \/ IsNaN(q) THEN NaN ELSE Rat(p[1] * q[2] + q[1] * p[2], p[2] * q[2])

RatSub(p, q) ==
    IF IsNaN(p) \/ IsNaN(q) THEN NaN ELSE Rat(p[1] * q[2] - q[1] * p[2], p[2] * q[2])

RatMul(p, q) ==
    IF IsNaN(p) \/ IsNaN(q) THEN NaN ELSE Rat(p[1] * q[1], p[2] * q[2])

(* float64 division: 0.0 / 0.0 is NaN, no exception *)
RatDiv(p, q) ==
    IF IsNaN(p) \/ IsNaN(q) THEN NaN ELSE Rat(p[1] * q[2], p[2] * q[1])

RECURSIVE SumSeq(_)
SumSeq(s) == IF s = <<>> THEN 0 ELSE s[1] + SumSeq(Tail(s))

----------------------------------------------------------------------------
(* scipy.stats.linregress(x, y): ordinary least squares.                   *)
(*   ssxm  = mean((x - mean x)^2),  ssxym = mean((x - mean x)(y - mean y)) *)
(*   slope = ssxym / ssxm,          intercept = mean y - slope * mean x    *)
(* Empty input, or several identical x, raise ValueError.  One point gives *)
(* ssxm = ssxym = 0 and so slope = intercept = NaN.                        *)

linregress(x, y) ==
    LET n     == Len(x)
        Sx    == SumSeq(x)
        Sy    == SumSeq(y)
        Sxx   == SumSeq([i \in 1..n |-> x[i] * x[i]])
        Sxy   == SumSeq([i \in 1..n |-> x[i] * y[i]])
        xmean == Rat(Sx, n)
        ymean == Rat(Sy, n)
        ssxm  == Rat(n * Sxx - Sx * Sx, n * n)
        ssxym == Rat(n * Sxy - Sx * Sy, n * n)
        slope == RatDiv(ssxym, ssxm)
    IN  IF n = 0 \/ Len(y) = 0
        THEN [error |-> "ValueError", slope |-> NaN, intercept |-> NaN]
        ELSE IF n > 1 /\ \A i \in 1..n : x[i] = x[1]
        THEN [error |-> "ValueError", slope |-> NaN, intercept |-> NaN]
        ELSE [error     |-> "",
              slope     |-> slope,
              intercept |-> RatSub(ymean, RatMul(slope, xmean))]

----------------------------------------------------------------------------
(* Random generation, time stamps, containers *)

(* Variant: a range one too wide at either end *)
randint_wide(a, b) == (a - 1)..(b + 1)

(* random.randint(a, b): an integer N with a <= N <= b *)
randint(a, b) == a..b

(* random.uniform(a, b), seen at `scale` units per 1.0 *)
uniform(a, b, scale) == (a * scale)..(b * scale)

(* round(v, k) where v carries one decimal digit more than k *)
round(v) == (v + 5) \div 10

(* datetime.now().strftime("%Y-%m-%d %H:%M:%S"): a string of the second *)
strftime(t) == <<"str", t>>

(* pd.to_datetime: the string parsed to a datetime64 value *)
to_datetime(ts) == <<"datetime", ts[2]>>

(* Outcomes of the three random calls of one execution, as            *)
(* <<randint for the population, uniform in 1/100 for the food,       *)
(*   randint for the chicks>>.  Each call only yields values of its   *)
(* range; the other tuples are there to be refused.                   *)
RandomDraws ==
    { <<50, 1004, 0>>, <<1000, 9996, 200>>,
      <<49, 5555, 100>>, <<1001, 5555, 100>>,
      <<525, 994, 100>>, <<525, 10006, 100>>,
      <<525, 5555, -1>>, <<525, 5555, 201>> }

(* Outcomes of the stock price's random.uniform, in 1/1000 *)
StockDraws == {99994, 100000, 100004, 125555, 149996, 150000, 150006}

(* Variant: a deque without maxlen *)
DequeAppendUnbounded(dq, e) == Append(dq, e)

(* Variant: a full deque drops its newest item *)
DequeAppendDropNewest(dq, e) ==
    IF Len(dq) >= DEQUE_SIZE THEN Append(SubSeq(dq, 1, Len(dq) - 1), e) ELSE Append(dq, e)

(* deque(maxlen=DEQUE_SIZE).append(e): a full deque drops its oldest item *)
DequeAppend(dq, e) ==
    IF Len(dq) >= DEQUE_SIZE THEN Append(Tail(dq), e) ELSE Append(dq, e)

(* pd.DataFrame(deque of dicts): one row per dict, one column per key *)
DataFrame(dq) == [i \in 1..Len(dq) |-> dq[i]]

(* df[column] = values *)
SetColumn(df, column, values) ==
    [i \in 1..Len(df) |->
        [c \in (DOMAIN df[i]) \cup {column} |->
            IF c = column THEN values[i] ELSE df[i][c]]]

----------------------------------------------------------------------------
(* The reactive graph.  An output re-renders when it is invalidated and    *)
(* shown; the outputs of a hidden nav panel stay suspended.  The timer of  *)
(* invalidate_later and the browser's messages are handled between         *)
(* flushes, when no shown output is left to render.                        *)

Visible(o) == app = "dashboard" => PanelOf(o) = tab

Runnable(o) == dirty[o] /\ Visible(o)

Idle == \A o \in Outputs : ~Runnable(o)

(* Variant: a plain function, whose body runs at every call *)
CacheNever == FALSE

(* @reactive.calc(): the body runs only when no valid value is cached *)
CacheHit == calc_valid

(* lines 30-42: the readings one execution of the calc may generate *)
new_data_entry ==
    { [penguin_population |-> d[1],
       food_availability  |-> round(d[2]),
       chick_count        |-> d[3],
       timestamp          |-> strftime(now)] :
      d \in { t \in RandomDraws : /\ t[1] \in randint(50, 1000)
                                  /\ t[2] \in uniform(10, 100, 100)
                                  /\ t[3] \in randint(0, 200) } }

(* generate_reactive_data(): what a call may return.  deque is the deque   *)
(* of reactive_value_wrapper after the call (deque_snapshot is that very   *)
(* object), df the DataFrame, latest the latest_data_entry; executed tells *)
(* whether the body ran.                                                   *)
generate_reactive_data ==
    IF CacheHit
    THEN { [deque    |-> reactive_value_wrapper,
            df       |-> calc_value.df,
            latest   |-> calc_value.latest,
            executed |-> FALSE] }
    ELSE { [deque    |-> DequeAppend(reactive_value_wrapper, e),
            df       |-> DataFrame(DequeAppend(reactive_value_wrapper, e)),
            latest   |-> <<e>>,
            executed |-> TRUE] : e \in new_data_entry }

(* The effects of a call of the calc by output o, but for what the output  *)
(* itself does with the DataFrame.                                         *)
Called(o, r) ==
    /\ reactive_value_wrapper' = r.deque
    /\ calc_valid' = TRUE
    /\ ticks' = IF r.executed THEN ticks + 1 ELSE ticks
    /\ ticks_in_interval' =
           IF r.executed THEN ticks_in_interval + 1 ELSE ticks_in_interval
    /\ generated' = IF r.executed THEN Append(generated, r.latest[1]) ELSE generated
    /\ last_read' = <<[deque |-> r.deque, df |-> r.df, latest |-> r.latest]>>
    /\ dirty' = [dirty EXCEPT ![o] = FALSE]
    /\ UNCHANGED <<app, tab, now, stock_valid, stock_value>>

display_population ==
    /\ app = "dashboard"
    /\ Runnable("display_population")
    /\ \E r \in generate_reactive_data :
        /\ Called("display_population", r)
        /\ calc_value' = [df |-> r.df, latest |-> r.latest]
        /\ output' = [output EXCEPT !["display_population"] =
                          <<r.latest[1].penguin_population, " Penguins">>]

display_chicks ==
    /\ app = "dashboard"
    /\ Runnable("display_chicks")
    /\ \E r \in generate_reactive_data :
        /\ Called("display_chicks", r)
        /\ calc_value' = [df |-> r.df, latest |-> r.latest]
        /\ output' = [output EXCEPT !["display_chicks"] =
                          <<r.latest[1].chick_count, " Chicks">>]

display_food ==
    /\ app = "dashboard"
    /\ Runnable("display_food")
    /\ \E r \in generate_reactive_data :
        /\ Called("display_food", r)
        /\ calc_value' = [df |-> r.df, latest |-> r.latest]
        /\ output' = [output EXCEPT !["display_food"] =
                          <<r.latest[1].food_availability, " Tons">>]

(* render.DataGrid(df): the table sent to the browser *)
show_data_frame ==
    /\ app = "dashboard"
    /\ Runnable("show_data_frame")
    /\ \E r \in generate_reactive_data :
        /\ Called("show_data_frame", r)
        /\ calc_value' = [df |-> r.df, latest |-> r.latest]
        /\ output' = [output EXCEPT !["show_data_frame"] = <<r.df>>]

(* Variant: indices counted from 1 *)
x_vals_from_one(df) == [i \in 1..Len(df) |-> i]

(* Independent variable of the regression: range(len(df)) *)
x_vals(df) == [i \in 1..Len(df) |-> i - 1]

(* Dependent variable: the penguin_population column *)
y_vals(df) == [i \in 1..Len(df) |-> df[i].penguin_population]

(* What plot_population_trend returns: the scatter trace y, the fitted     *)
(* line and its coefficients, or the exception that ended it.             *)
Unrendered ==
    [status |-> "unrendered", y |-> <<>>, slope |-> NaN, intercept |-> NaN,
     best_fit_line |-> <<>>]

(* lines 131-171: the body of plot_population_trend on the DataFrame it    *)
(* got.  It assigns two columns of that DataFrame in place.  An empty      *)
(* DataFrame skips the block and `return fig` finds fig unassigned.        *)
PlotBody(df) ==
    IF df = <<>>
    THEN [df  |-> df,
          fig |-> [Unrendered EXCEPT !.status = "UnboundLocalError"]]
    ELSE LET df1  == SetColumn(df, "timestamp",
                               [i \in 1..Len(df) |-> to_datetime(df[i].timestamp)])
             lr   == linregress(x_vals(df1), y_vals(df1))
             line == [i \in 1..Len(df1) |->
                        RatAdd(RatMul(lr.slope, FromInt(x_vals(df1)[i])), lr.intercept)]
         IN  IF lr.error # ""
             THEN [df |-> df1, fig |-> [Unrendered EXCEPT !.status = lr.error]]
             ELSE [df  |-> SetColumn(df1, "best_fit_line", line),
                   fig |-> [status        |-> "ok",
                            y             |-> y_vals(df1),
                            slope         |-> lr.slope,
                            intercept     |-> lr.intercept,
                            best_fit_line |-> line]]

plot_population_trend ==
    /\ app = "dashboard"
    /\ Runnable("plot_population_trend")
    /\ \E r \in generate_reactive_data :
        /\ Called("plot_population_trend", r)
        /\ calc_value' = [df |-> PlotBody(r.df).df, latest |-> r.latest]
        /\ output' = [output EXCEPT !["plot_population_trend"] = <<PlotBody(r.df).fig>>]

(* reactive.invalidate_later(UPDATE_INTERVAL_SECS) comes due: the calc and *)
(* every output that read it are invalidated.                              *)
TimerFires ==
    /\ app = "dashboard"
    /\ calc_valid
    /\ Idle
    /\ ticks < MaxTicks
    /\ calc_valid' = FALSE
    /\ dirty' = [o \in Outputs |-> o \in DashboardOutputs]
    /\ now' = now + UPDATE_INTERVAL_SECS
    /\ ticks_in_interval' = 0
    /\ UNCHANGED <<app, tab, reactive_value_wrapper, calc_value, output, ticks,
                   generated, last_read, stock_valid, stock_value>>

(* The user selects the other nav panel. *)
SwitchTab ==
    /\ app = "dashboard"
    /\ Idle
    /\ tab' = IF tab = LiveData THEN TrendTab ELSE LiveData
    /\ UNCHANGED <<app, now, reactive_value_wrapper, calc_valid, calc_value, dirty,
                   output, ticks, ticks_in_interval, generated, last_read,
                   stock_valid, stock_value>>

----------------------------------------------------------------------------
(* src/app.py *)

(* lines 55-62: the entries one execution of reactive_calc_stock may make *)
stock_data_entry ==
    { [price |-> round(u), timestamp |-> strftime(now)] :
      u \in StockDraws \cap uniform(100, 150, 1000) }

reactive_calc_stock ==
    IF stock_valid
    THEN { [entry |-> stock_value[1], executed |-> FALSE] }
    ELSE { [entry |-> e, executed |-> TRUE] : e \in stock_data_entry }

StockCalled(o, r) ==
    /\ stock_valid' = TRUE
    /\ stock_value' = <<r.entry>>
    /\ ticks' = IF r.executed THEN ticks + 1 ELSE ticks
    /\ ticks_in_interval' =
           IF r.executed THEN ticks_in_interval + 1 ELSE ticks_in_interval
    /\ dirty' = [dirty EXCEPT ![o] = FALSE]
    /\ UNCHANGED <<app, tab, now, reactive_value_wrapper, calc_valid, calc_value,
                   generated, last_read>>

display_price ==
    /\ app = "stock"
    /\ Runnable("display_price")
    /\ \E r \in reactive_calc_stock :
        /\ StockCalled("display_price", r)
        /\ output' = [output EXCEPT !["display_price"] = <<"$", r.entry.price, " USD">>]

display_time ==
    /\ app = "stock"
    /\ Runnable("display_time")
    /\ \E r \in reactive_calc_stock :
        /\ StockCalled("display_time", r)
        /\ output' = [output EXCEPT !["display_time"] = <<r.entry.timestamp>>]

StockTimerFires ==
    /\ app = "stock"
    /\ stock_valid
    /\ Idle
    /\ ticks < MaxTicks
    /\ stock_valid' = FALSE
    /\ dirty' = [o \in Outputs |-> o \in StockOutputs]
    /\ now' = now + UPDATE_INTERVAL_SECS_stock
    /\ ticks_in_interval' = 0
    /\ UNCHANGED <<app, tab, reactive_value_wrapper, calc_valid, calc_value, output,
                   ticks, generated, last_read, stock_value>>

----------------------------------------------------------------------------
(* Either program, from its start *)

Init ==
    /\ app \in {"dashboard", "stock"}
    /\ tab = LiveData
    /\ now = 0
    /\ reactive_value_wrapper = <<>>
    /\ calc_valid = FALSE
    /\ calc_value = [df |-> <<>>, latest |-> <<>>]
    /\ dirty = [o \in Outputs |->
                   o \in (IF app = "dashboard" THEN DashboardOutputs ELSE StockOutputs)]
    /\ output = [o \in Outputs |-> <<>>]
    /\ ticks = 0
    /\ ticks_in_interval = 0
    /\ generated = <<>>
    /\ last_read = <<>>
    /\ stock_valid = FALSE
    /\ stock_value = <<>>

Next ==
    \/ display_population
    \/ display_chicks
    \/ display_food
    \/ show_data_frame
    \/ plot_population_trend
    \/ TimerFires
    \/ SwitchTab
    \/ display_price
    \/ display_time
    \/ StockTimerFires

Spec == Init /\ [][Next]_vars

----------------------------------------------------------------------------
(* The body of plot_population_trend on its own, applied to the DataFrame  *)
(* of a buffer filled by a generator with fixed outcomes: every sequence   *)
(* a + b*i of at most DEQUE_SIZE values, each also with its last value off *)
(* the line.                                                               *)

TrendIntercepts == {3, 10, 50}

TrendSlopes == -2..2

TrendInputs ==
    LET linear == { [i \in 1..n |-> a + b * (i - 1)] :
                    a \in TrendIntercepts, b \in TrendSlopes, n \in 0..DEQUE_SIZE }
    IN  linear \cup { [ys EXCEPT ![Len(ys)] = @ + 1] : ys \in { l \in linear : Len(l) >= 3 } }

MockReading(v, i) ==
    [penguin_population |-> v,
     food_availability  |-> 100,
     chick_count        |-> 0,
     timestamp          |-> strftime(i * UPDATE_INTERVAL_SECS)]

InitTrend ==
    /\ app = "dashboard"
    /\ tab = TrendTab
    /\ \E ys \in TrendInputs :
          reactive_value_wrapper = [i \in 1..Len(ys) |-> MockReading(ys[i], i)]
    /\ now = Len(reactive_value_wrapper) * UPDATE_INTERVAL_SECS
    /\ calc_valid = TRUE
    /\ calc_value =
          [df     |-> DataFrame(reactive_value_wrapper),
           latest |-> IF reactive_value_wrapper = <<>> THEN <<>>
                      ELSE <<reactive_value_wrapper[Len(reactive_value_wrapper)]>>]
    /\ dirty = [o \in Outputs |-> o = "plot_population_trend"]
    /\ output = [o \in Outputs |-> <<>>]
    /\ ticks = Len(reactive_value_wrapper)
    /\ ticks_in_interval = (IF reactive_value_wrapper = <<>> THEN 0 ELSE 1)
    /\ generated = reactive_value_wrapper
    /\ last_read = <<>>
    /\ stock_valid = FALSE
    /\ stock_value = <<>>

NextTrend == plot_population_trend

SpecTrend == InitTrend /\ [][NextTrend]_vars

----------------------------------------------------------------------------
(* Properties *)

Min(a, b) == IF a < b THEN a ELSE b

Last(s) == s[Len(s)]

Population(dq) == [i \in 1..Len(dq) |-> dq[i].penguin_population]

PlotRendered == output["plot_population_trend"] # <<>>

Fig == output["plot_population_trend"][1]

(* C1: after k executions of generate_reactive_data from the empty deque, *)
(* the deque holds min(k, DEQUE_SIZE) readings; never more than           *)
(* DEQUE_SIZE.                                                            *)
C1_Length ==
    app = "dashboard" =>
        /\ Len(reactive_value_wrapper) = Min(ticks, DEQUE_SIZE)
        /\ Len(reactive_value_wrapper) <= DEQUE_SIZE

C1_Witness ==
    /\ app = "dashboard"
    /\ ticks > DEQUE_SIZE
    /\ Len(reactive_value_wrapper) = DEQUE_SIZE

(* C2: once more than DEQUE_SIZE readings were generated, the deque is    *)
(* exactly the DEQUE_SIZE most recent of them, in generation order; up to *)
(* then it is all of them.                                                *)
C2_Fifo ==
    app = "dashboard" =>
        /\ Len(generated) = ticks
        /\ ticks > DEQUE_SIZE =>
              reactive_value_wrapper = SubSeq(generated, ticks - DEQUE_SIZE + 1, ticks)
        /\ ticks <= DEQUE_SIZE => reactive_value_wrapper = generated

C2_Witness ==
    /\ app = "dashboard"
    /\ ticks >= DEQUE_SIZE + 2
    /\ reactive_value_wrapper = SubSeq(generated, ticks - DEQUE_SIZE + 1, ticks)
    /\ generated[1].penguin_population # generated[ticks - DEQUE_SIZE + 1].penguin_population
    /\ generated[2].penguin_population # generated[ticks - DEQUE_SIZE + 2].penguin_population

(* C3 (as claimed): every result a call of generate_reactive_data returns *)
(* has as its latest entry the reading appended last, which is the last   *)
(* item of the returned deque and the last row of the returned DataFrame. *)
C3_LatestIsLast ==
    last_read # <<>> =>
        /\ last_read[1].latest = <<Last(generated)>>
        /\ last_read[1].latest = <<Last(last_read[1].deque)>>
        /\ last_read[1].latest = <<Last(last_read[1].df)>>

(* C4 (as claimed): a call of generate_reactive_data that follows another *)
(* with no execution of the body at or between them returns the same      *)
(* deque contents, DataFrame contents and latest entry.                   *)
C4_ReadsAgree ==
    [][(last_read # <<>> /\ ticks' = ticks) => last_read' = last_read]_vars

(* C5 (as claimed): the trend over a single reading succeeds with slope 0 *)
(* and intercept that reading's penguin_population.                       *)
C5_SinglePoint ==
    (PlotRendered /\ Len(Fig.y) = 1) =>
        /\ Fig.status = "ok"
        /\ Fig.slope = FromInt(0)
        /\ Fig.intercept = FromInt(Fig.y[1])

C7_Ranges ==
    /\ \A i \in 1..Len(reactive_value_wrapper) :
          /\ reactive_value_wrapper[i].penguin_population \in 50..1000
          /\ reactive_value_wrapper[i].food_availability \in 100..1000
          /\ reactive_value_wrapper[i].chick_count \in 0..200
    /\ \A i \in 1..Len(stock_value) : stock_value[i].price \in 10000..15000

C7_Witness ==
    /\ Len(reactive_value_wrapper) = DEQUE_SIZE
    /\ \E i, j \in 1..DEQUE_SIZE :
          /\ reactive_value_wrapper[i].penguin_population = 50
          /\ reactive_value_wrapper[i].food_availability = 100
          /\ reactive_value_wrapper[i].chick_count = 0
          /\ reactive_value_wrapper[j].penguin_population = 1000
          /\ reactive_value_wrapper[j].food_availability = 1000
          /\ reactive_value_wrapper[j].chick_count = 200

(* C8: over at least two readings whose penguin_population is a + b*i at   *)
(* index i = 0..length-1, the trend has slope b and intercept a and its    *)
(* fitted line passes through every reading.                               *)
C8_ExactFit ==
    LET ys == Population(generated)
        a  == ys[1]
        b  == ys[2] - ys[1]
    IN  (/\ PlotRendered
         /\ Len(ys) >= 2
         /\ \A i \in 1..Len(ys) : ys[i] = a + b * (i - 1))
        => /\ Fig.status = "ok"
           /\ Fig.slope = FromInt(b)
           /\ Fig.intercept = FromInt(a)
           /\ Fig.best_fit_line = [i \in 1..Len(ys) |-> FromInt(ys[i])]

C8_Witness ==
    /\ PlotRendered
    /\ Population(generated) = <<10, 12, 14>>
    /\ Fig.slope = FromInt(2)
    /\ Fig.intercept = FromInt(10)

(* C9: between two firings of the timer the body of generate_reactive_data *)
(* runs at most once, however many outputs read it and in whatever order.  *)
C9_OneTickPerInterval == ticks_in_interval <= 1

C9_Witness ==
    /\ app = "dashboard"
    /\ ticks >= 2
    /\ ticks_in_interval = 1
    /\ \A o \in DashboardOutputs : ~dirty[o] /\ output[o] # <<>>

(* C10 (as claimed): only an execution of the body of                      *)
(* generate_reactive_data changes the deque or the DataFrame handed to the *)
(* outputs; no output changes them by rendering.                           *)
C10_OnlyTickMutates ==
    [][ticks' = ticks =>
          /\ reactive_value_wrapper' = reactive_value_wrapper
          /\ calc_value' = calc_value]_vars

====
